---------------------------- MODULE Spec2Model ----------------------------
(***************************************************************************)
(* Cloudflare Workers task queue: the API worker (authoritative task      *)
(* records in the TASK_STORAGE KV namespace), the queue consumer worker   *)
(* (buffer entries in the TASK_BUFFER KV namespace) and the local         *)
(* consumer (TaskConsumer polling loop).                                   *)
(*                                                                         *)
(* A KV namespace is a function from the keys it holds to                  *)
(* [value |-> v] or [value |-> v, expiration |-> t]; a JSON object is a    *)
(* record whose optional fields are simply missing from its domain, so     *)
(* JSON.stringify / JSON.parse keep exactly the fields that are defined.   *)
(***************************************************************************)
EXTENDS Integers, Sequences, FiniteSets, TLC

\* ------------------------------------------------------------- bounds
MaxRedeliveries == 1      \* duplicate deliveries of already acknowledged messages
MaxBatch == 2             \* messages in one MessageBatch
MaxDays == 1              \* how many times the clock advances by one expirationTtl

\* ------------------------------------------------- program constants
ExpirationTtl == 86400    \* { expirationTtl: 86400 }

\* --------------------------------------------------------- input sets
TaskOrder == <<"t1", "t2">>          \* the ids crypto.randomUUID() hands out
TaskIds == {TaskOrder[i] : i \in DOMAIN TaskOrder}
Workers == {"w1", "w2"}              \* local consumer processes
Types == {"email"}
Payloads == {[shouldFail |-> FALSE], [shouldFail |-> TRUE]}
\* request bodies of POST /tasks: type and payload are both optional
SubmitBodies ==
    {[type |-> ty, payload |-> p] : ty \in Types, p \in Payloads}
        \cup {[type |-> ty] : ty \in Types}
        \cup {[payload |-> p] : p \in Payloads}

VARIABLES
    now,          \* wall clock, in seconds (new Date())
    storage,      \* TASK_STORAGE: authoritative task records
    queue,        \* TASK_QUEUE_V2: messages sent and not yet acknowledged
    acked,        \* messages whose batch the queue handler finished normally
    redelivered,  \* duplicate deliveries made so far
    buffer,       \* TASK_BUFFER: buffer entries
    pc,           \* where each TaskConsumer is in start()
    readyTasks,   \* per consumer: task ids of readyTasks still to visit
    claimReq,     \* per consumer: `task` held by its claim request between get and put
    claimedTask,  \* per consumer: the task its claim returned
    last          \* the last handler that ran: its caller, input and response

vars == <<now, storage, queue, acked, redelivered, buffer, pc,
          readyTasks, claimReq, claimedTask, last>>

\* ---------------------------------------------------------- KV store
Has(obj, field) == field \in DOMAIN obj

SetField(obj, field, val) ==
    [f \in DOMAIN obj \cup {field} |-> IF f = field THEN val ELSE obj[f]]

KVHas(kv, key) == key \in DOMAIN kv

KVGet(kv, key) == kv[key].value

KVPut(kv, key, val) ==
    [k \in DOMAIN kv \cup {key} |-> IF k = key THEN [value |-> val] ELSE kv[k]]

\* faulty variant of KVPutTtl: the first write of a key wins
KVPutTtlIfAbsent(kv, key, val, ttl) ==
    [k \in DOMAIN kv \cup {key} |->
        IF k \in DOMAIN kv THEN kv[k] ELSE [value |-> val, expiration |-> now + ttl]]

KVPutTtl(kv, key, val, ttl) ==
    [k \in DOMAIN kv \cup {key} |->
        IF k = key THEN [value |-> val, expiration |-> now + ttl] ELSE kv[k]]

KVDelete(kv, key) == [k \in DOMAIN kv \ {key} |-> kv[k]]

\* keys whose expiration has passed are gone for get and list
KVExpire(kv, t) ==
    [k \in {x \in DOMAIN kv : ~(Has(kv[x], "expiration") /\ kv[x].expiration <= t)}
        |-> kv[k]]

TaskKey(taskId) == "task:" \o taskId

EmptyKV == [k \in {} |-> [value |-> 0]]

Client == "client"     \* a caller of the HTTP APIs other than the consumers

\* ------------------------------------------------------- API worker
\* crypto.randomUUID() drawing from ids: an id no stored task has (the first one)
FreshIds(ids) ==
    {TaskOrder[i] : i \in {j \in DOMAIN TaskOrder :
        /\ TaskOrder[j] \in ids
        /\ ~KVHas(storage, TaskKey(TaskOrder[j]))
        /\ \A m \in DOMAIN TaskOrder :
              m < j => KVHas(storage, TaskKey(TaskOrder[m]))}}

\* const task: Task = { id, type, payload, createdAt, status: 'pending' }
NewTask(taskId, body) ==
    LET base == [id |-> taskId, type |-> body.type, createdAt |-> now,
                 status |-> "pending"]
    IN  IF Has(body, "payload") THEN SetField(base, "payload", body.payload) ELSE base

\* the message of TASK_QUEUE_V2.send
QueueMessage(task) ==
    LET base == [taskId |-> task.id, type |-> task.type, createdAt |-> task.createdAt]
    IN  IF Has(task, "payload") THEN SetField(base, "payload", task.payload) ELSE base

\* faulty variant of Submit: the message is sent before the record is stored
SubmitSendFirst(ids, body, fail) ==
    /\ IF ~Has(body, "type")
       THEN /\ fail = "none"
            /\ last' = [op |-> "submit", by |-> Client, id |-> "", status |-> 400,
                        fail |-> fail, body |-> body]
            /\ UNCHANGED <<storage, queue>>
       ELSE \E taskId \in FreshIds(ids) :
            LET task == NewTask(taskId, body) IN
            /\ queue' = IF fail = "send" THEN queue
                        ELSE queue \cup {QueueMessage(task)}
            /\ storage' = IF fail = "none" THEN KVPut(storage, TaskKey(taskId), task)
                          ELSE storage
            /\ last' = [op |-> "submit", by |-> Client, id |-> taskId,
                        status |-> IF fail = "none" THEN 201 ELSE 500, fail |-> fail,
                        body |-> body]
    /\ UNCHANGED <<now, acked, redelivered, buffer, pc, readyTasks, claimReq,
                   claimedTask>>

\* faulty variant of Submit: the type is checked after the record is stored
SubmitCheckAfterPut(ids, body, fail) ==
    /\ \E taskId \in FreshIds(ids) :
         LET base == [id |-> taskId, createdAt |-> now, status |-> "pending"]
             task == IF Has(body, "type") THEN SetField(base, "type", body.type)
                     ELSE base
             msg == [taskId |-> taskId, type |-> task.type, createdAt |-> now]
         IN  /\ storage' = IF fail = "put" THEN storage
                           ELSE KVPut(storage, TaskKey(taskId), task)
             /\ ~Has(body, "type") => fail = "none"
             /\ queue' = IF fail = "none" /\ Has(body, "type") THEN queue \cup {msg}
                         ELSE queue
             /\ last' = [op |-> "submit", by |-> Client, id |-> taskId,
                         status |-> IF ~Has(body, "type") THEN 400
                                    ELSE IF fail = "none" THEN 201 ELSE 500,
                         fail |-> fail, body |-> body]
    /\ UNCHANGED <<now, acked, redelivered, buffer, pc, readyTasks, claimReq,
                   claimedTask>>

\* faulty variant of Submit: the record is taken back when the send fails
SubmitRollback(ids, body, fail) ==
    /\ IF ~Has(body, "type")
       THEN /\ fail = "none"
            /\ last' = [op |-> "submit", by |-> Client, id |-> "", status |-> 400,
                        fail |-> fail, body |-> body]
            /\ UNCHANGED <<storage, queue>>
       ELSE \E taskId \in FreshIds(ids) :
            LET task == NewTask(taskId, body) IN
            /\ storage' = IF fail = "none" THEN KVPut(storage, TaskKey(taskId), task)
                          ELSE storage
            /\ queue' = IF fail = "none" THEN queue \cup {QueueMessage(task)}
                        ELSE queue
            /\ last' = [op |-> "submit", by |-> Client, id |-> taskId,
                        status |-> IF fail = "none" THEN 201 ELSE 500, fail |-> fail,
                        body |-> body]
    /\ UNCHANGED <<now, acked, redelivered, buffer, pc, readyTasks, claimReq,
                   claimedTask>>

\* POST /tasks. fail: which await throws ("none", "put" or "send").
Submit(ids, body, fail) ==
    /\ IF ~Has(body, "type")
       THEN /\ fail = "none"
            /\ last' = [op |-> "submit", by |-> Client, id |-> "", status |-> 400,
                        fail |-> fail, body |-> body]
            /\ UNCHANGED <<storage, queue>>
       ELSE \E taskId \in FreshIds(ids) :
            LET task == NewTask(taskId, body) IN
            /\ storage' = IF fail = "put" THEN storage
                          ELSE KVPut(storage, TaskKey(taskId), task)
            /\ queue' = IF fail = "none" THEN queue \cup {QueueMessage(task)}
                        ELSE queue
            /\ last' = [op |-> "submit", by |-> Client, id |-> taskId,
                        status |-> IF fail = "none" THEN 201 ELSE 500, fail |-> fail,
                        body |-> body]
    /\ UNCHANGED <<now, acked, redelivered, buffer, pc, readyTasks, claimReq,
                   claimedTask>>

\* faulty variant of StatusBody: completedAt falls back to createdAt
StatusBodyStamped(task) ==
    [taskId |-> task.id, status |-> task.status, type |-> task.type,
     createdAt |-> task.createdAt,
     completedAt |-> IF Has(task, "completedAt") THEN task.completedAt
                     ELSE task.createdAt]

\* GET /tasks/:id/status
StatusBody(task) ==
    LET base == [taskId |-> task.id, status |-> task.status, type |-> task.type,
                 createdAt |-> task.createdAt]
    IN  IF Has(task, "completedAt")
        THEN SetField(base, "completedAt", task.completedAt) ELSE base

GetStatus(taskId) ==
    /\ last' = IF KVHas(storage, TaskKey(taskId))
               THEN [op |-> "getStatus", by |-> Client, id |-> taskId, status |-> 200,
                     body |-> StatusBody(KVGet(storage, TaskKey(taskId)))]
               ELSE [op |-> "getStatus", by |-> Client, id |-> taskId, status |-> 404]
    /\ UNCHANGED <<now, storage, queue, acked, redelivered, buffer, pc, readyTasks,
                   claimReq, claimedTask>>

\* GET /tasks: every stored record
ListTasksApi ==
    /\ last' = [op |-> "listAll", by |-> Client, status |-> 200,
                tasks |-> {KVGet(storage, k) : k \in DOMAIN storage}]
    /\ UNCHANGED <<now, storage, queue, acked, redelivered, buffer, pc, readyTasks,
                   claimReq, claimedTask>>

\* faulty variant of CompleteTask: completedAt is stamped on success only
CompleteTaskUnstamped(task, body) ==
    LET t1 == SetField(task, "status", IF body.success THEN "completed" ELSE "failed")
        t2 == IF body.success THEN SetField(t1, "completedAt", now) ELSE t1
        t3 == IF Has(body, "result") THEN SetField(t2, "result", body.result) ELSE t2
    IN  IF Has(body, "error") THEN SetField(t3, "error", body.error) ELSE t3

\* faulty variant of CompleteTask: a failed report puts the task back to pending
CompleteTaskRequeue(task, body) ==
    LET t1 == SetField(task, "status", IF body.success THEN "completed" ELSE "pending")
        t2 == SetField(t1, "completedAt", now)
        t3 == IF Has(body, "result") THEN SetField(t2, "result", body.result) ELSE t2
    IN  IF Has(body, "error") THEN SetField(t3, "error", body.error) ELSE t3

\* lines 119-128 of POST /tasks/:id/complete: the record that is written back
CompleteTask(task, body) ==
    LET t1 == SetField(task, "status", IF body.success THEN "completed" ELSE "failed")
        t2 == SetField(t1, "completedAt", now)
        t3 == IF Has(body, "result") THEN SetField(t2, "result", body.result) ELSE t2
    IN  IF Has(body, "error") THEN SetField(t3, "error", body.error) ELSE t3

\* faulty variant of ReportStore: an unknown id gets a record
ReportStoreUpsert(taskId, body) ==
    IF KVHas(storage, TaskKey(taskId))
    THEN KVPut(storage, TaskKey(taskId),
               CompleteTask(KVGet(storage, TaskKey(taskId)), body))
    ELSE KVPut(storage, TaskKey(taskId), CompleteTask([id |-> taskId], body))

\* POST /tasks/:id/complete on the API worker: the store it leaves
ReportStore(taskId, body) ==
    IF KVHas(storage, TaskKey(taskId))
    THEN KVPut(storage, TaskKey(taskId),
               CompleteTask(KVGet(storage, TaskKey(taskId)), body))
    ELSE storage

ReportStatus(taskId) == IF KVHas(storage, TaskKey(taskId)) THEN 200 ELSE 404

\* bodies the local consumer posts: markTaskCompleted(id, true, result) and
\* markTaskCompleted(id, false, undefined, error)
ProcessingTime(type) ==
    CASE type = "heavy" -> 3000
      [] type = "medium" -> 2000
      [] type = "light" -> 500
      [] OTHER -> 1000

\* result: { processedAt, processedBy, processingDuration }
SuccessBody(type, processedAt) ==
    [success |-> TRUE,
     result |-> [processedAt |-> processedAt, processedBy |-> "local-consumer-v2",
                 processingDuration |-> ProcessingTime(type)]]

\* error: error?.message of new Error('Simulated task failure')
FailureBody == [success |-> FALSE, error |-> "Simulated task failure"]

\* what a caller of the API may post
ReportBodies == {SuccessBody(ty, now) : ty \in Types} \cup {FailureBody}

\* reportCompletion by any caller of the API (a retry, a duplicate, an operator)
ReportCompletion(taskId, body) ==
    /\ storage' = ReportStore(taskId, body)
    /\ last' = [op |-> "report", by |-> Client, id |-> taskId, body |-> body,
                status |-> ReportStatus(taskId)]
    /\ UNCHANGED <<now, queue, acked, redelivered, buffer, pc, readyTasks, claimReq,
                   claimedTask>>

\* ------------------------------------------- queue consumer worker
\* const bufferedTask = { ...message.body, status: 'ready', receivedAt }
BufferedTask(body) == SetField(SetField(body, "status", "ready"), "receivedAt", now)

\* the key the queue handler stores a message under
QueueKey(body) == TaskKey(body.taskId)

\* faulty variant of QueueLoop: the catch logs the error and the loop goes on
RECURSIVE QueueLoopSwallow(_, _, _, _)
QueueLoopSwallow(buf, batch, i, failAt) ==
    IF i > Len(batch) THEN [buffer |-> buf, written |-> i - 1, outcome |-> "ok"]
    ELSE IF i = failAt THEN QueueLoopSwallow(buf, batch, i + 1, failAt)
    ELSE QueueLoopSwallow(KVPutTtl(buf, TaskKey(batch[i].taskId),
                                   SetField(SetField(batch[i], "status", "ready"),
                                            "receivedAt", now),
                                   ExpirationTtl),
                          batch, i + 1, failAt)

\* async queue(batch, env): the for loop from message i on. failAt is the message
\* whose TASK_BUFFER.put throws (0: none); the catch rethrows, ending the handler.
RECURSIVE QueueLoop(_, _, _, _)
QueueLoop(buf, batch, i, failAt) ==
    IF i > Len(batch) THEN [buffer |-> buf, written |-> i - 1, outcome |-> "ok"]
    ELSE IF i = failAt THEN [buffer |-> buf, written |-> i - 1, outcome |-> "error"]
    ELSE QueueLoop(KVPutTtl(buf, QueueKey(batch[i]), BufferedTask(batch[i]),
                            ExpirationTtl),
                   batch, i + 1, failAt)

\* batches the transport may hand over: distinct messages that were sent
Batches ==
    LET msgs == queue \cup acked IN
    {b \in UNION {[1..n -> msgs] : n \in 1..MaxBatch} :
        \A i, j \in DOMAIN b : i # j => b[i] # b[j]}

BatchSet(batch) == {batch[i] : i \in DOMAIN batch}

\* One run of the queue handler. A batch that ends normally is acknowledged, a
\* batch that ends with an error stays queued; acknowledged messages may be
\* delivered again (at-least-once), MaxRedeliveries times in all.
QueueHandler(batch, failAt) ==
    LET run == QueueLoop(buffer, batch, 1, failAt)
        dups == Cardinality(BatchSet(batch) \cap acked)
    IN  /\ redelivered + dups <= MaxRedeliveries
        /\ buffer' = run.buffer
        /\ redelivered' = redelivered + dups
        /\ queue' = IF run.outcome = "ok" THEN queue \ BatchSet(batch) ELSE queue
        /\ acked' = IF run.outcome = "ok" THEN acked \cup BatchSet(batch) ELSE acked
        /\ last' = [op |-> "queue", by |-> "transport", batch |-> batch,
                    failAt |-> failAt, written |-> run.written,
                    outcome |-> run.outcome]
        /\ UNCHANGED <<now, storage, pc, readyTasks, claimReq, claimedTask>>

\* faulty variant of ListTasks: the status of an entry is not compared
RECURSIVE ListTasksAnyStatus(_, _, _)
ListTasksAnyStatus(buf, i, onlyReady) ==
    IF i > Len(TaskOrder) THEN <<>>
    ELSE LET key == TaskKey(TaskOrder[i])
             rest == ListTasksAnyStatus(buf, i + 1, onlyReady)
         IN  IF KVHas(buf, key) THEN <<KVGet(buf, key)>> \o rest ELSE rest

\* GET /tasks/ready and GET /tasks/all: list() returns the keys in order
RECURSIVE ListTasks(_, _, _)
ListTasks(buf, i, onlyReady) ==
    IF i > Len(TaskOrder) THEN <<>>
    ELSE LET key == TaskKey(TaskOrder[i])
             rest == ListTasks(buf, i + 1, onlyReady)
         IN  IF KVHas(buf, key) /\ (~onlyReady \/ KVGet(buf, key).status = "ready")
             THEN <<KVGet(buf, key)>> \o rest
             ELSE rest

ListReady(buf) == ListTasks(buf, 1, TRUE)
ListAll(buf) == ListTasks(buf, 1, FALSE)

\* faulty variant of ClaimCheck: the status of the entry is not looked at
ClaimCheckPresence(buf, taskId) ==
    IF ~KVHas(buf, TaskKey(taskId)) THEN 404 ELSE 200

\* POST /tasks/:id/claim, lines 105-127: the status the read decides
ClaimCheck(buf, taskId) ==
    IF ~KVHas(buf, TaskKey(taskId)) THEN 404
    ELSE IF KVGet(buf, TaskKey(taskId)).status # "ready" THEN 409
    ELSE 200

\* lines 129-131: task.status = 'processing'; task.claimedAt = now
ClaimTask(task) == SetField(SetField(task, "status", "processing"), "claimedAt", now)

\* line 133: TASK_BUFFER.put(`task:${taskId}`, JSON.stringify(task))
ClaimPut(buf, taskId, task) == KVPut(buf, TaskKey(taskId), task)

\* POST /tasks/:id/complete on the queue worker, line 151
CompleteBuffer(buf, taskId) == KVDelete(buf, TaskKey(taskId))

\* faulty variant of CompleteStatus: a missing entry is an error
CompleteStatusStrict(buf, taskId) == IF KVHas(buf, TaskKey(taskId)) THEN 200 ELSE 404

\* lines 155-161: the response after the delete
CompleteStatus(buf, taskId) == 200

\* ------------------------------------------------- local consumer
ShouldFail(task) == task.payload.shouldFail

\* for (const task of readyTasks): on to the next candidate, or to the sleep
NextPc(w) == IF Len(readyTasks[w]) > 1 THEN "claim" ELSE "sleep"

Skip(w) ==
    /\ pc' = [pc EXCEPT ![w] = NextPc(w)]
    /\ readyTasks' = [readyTasks EXCEPT ![w] = Tail(@)]

\* start(): testConnections() succeeded, isRunning = true
Start(w) ==
    /\ pc[w] = "start"
    /\ pc' = [pc EXCEPT ![w] = "poll"]
    /\ last' = [op |-> "health", by |-> w, status |-> 200]
    /\ UNCHANGED <<now, storage, queue, acked, redelivered, buffer, readyTasks,
                   claimReq, claimedTask>>

\* faulty variant of StartFail: the result of testConnections() is ignored
StartFailIgnored(w) ==
    /\ pc[w] = "start"
    /\ pc' = [pc EXCEPT ![w] = "poll"]
    /\ last' = [op |-> "health", by |-> w, status |-> 0]
    /\ UNCHANGED <<now, storage, queue, acked, redelivered, buffer, readyTasks,
                   claimReq, claimedTask>>

\* start(): testConnections() returned false, start() returns
StartFail(w) ==
    /\ pc[w] = "start"
    /\ pc' = [pc EXCEPT ![w] = "exited"]
    /\ last' = [op |-> "health", by |-> w, status |-> 0]
    /\ UNCHANGED <<now, storage, queue, acked, redelivered, buffer, readyTasks,
                   claimReq, claimedTask>>

TaskIdsOf(tasks) == [i \in DOMAIN tasks |-> tasks[i].taskId]

\* getReadyTasks() answered by GET /tasks/ready
Poll(w) ==
    /\ pc[w] = "poll"
    /\ readyTasks' = [readyTasks EXCEPT ![w] = TaskIdsOf(ListReady(buffer))]
    /\ pc' = [pc EXCEPT ![w] = IF ListReady(buffer) = <<>> THEN "sleep" ELSE "claim"]
    /\ last' = [op |-> "listReady", by |-> w, status |-> 200,
                tasks |-> ListReady(buffer)]
    /\ UNCHANGED <<now, storage, queue, acked, redelivered, buffer, claimReq,
                   claimedTask>>

\* getReadyTasks(): the request failed, [] is returned
PollFail(w) ==
    /\ pc[w] = "poll"
    /\ readyTasks' = [readyTasks EXCEPT ![w] = <<>>]
    /\ pc' = [pc EXCEPT ![w] = "sleep"]
    /\ last' = [op |-> "listReady", by |-> w, status |-> 0]
    /\ UNCHANGED <<now, storage, queue, acked, redelivered, buffer, claimReq,
                   claimedTask>>

\* setTimeout(resolve, pollInterval) is over
Wake(w) ==
    /\ pc[w] = "sleep"
    /\ pc' = [pc EXCEPT ![w] = "poll"]
    /\ last' = [op |-> "wake", by |-> w]
    /\ UNCHANGED <<now, storage, queue, acked, redelivered, buffer, readyTasks,
                   claimReq, claimedTask>>

\* claimTask(): the claim request's TASK_BUFFER.get and the two early returns
ClaimRead(w) ==
    LET taskId == Head(readyTasks[w])
        status == ClaimCheck(buffer, taskId)
    IN  /\ pc[w] = "claim"
        /\ IF status = 200
           THEN /\ claimReq' = [claimReq EXCEPT
                                   ![w] = {KVGet(buffer, TaskKey(taskId))}]
                /\ pc' = [pc EXCEPT ![w] = "claimWrite"]
                /\ last' = [op |-> "claimRead", by |-> w, id |-> taskId]
                /\ UNCHANGED readyTasks
           ELSE /\ Skip(w)
                /\ last' = [op |-> "claim", by |-> w, id |-> taskId,
                            status |-> status]
                /\ UNCHANGED claimReq
        /\ UNCHANGED <<now, storage, queue, acked, redelivered, buffer, claimedTask>>

\* faulty variant of ClaimWrite: processTask is not awaited, the loop goes on to
\* the next candidate
ClaimWriteNoAwait(w) ==
    LET taskId == Head(readyTasks[w]) IN
    /\ pc[w] = "claimWrite"
    /\ \E task \in claimReq[w] :
        /\ buffer' = ClaimPut(buffer, taskId, ClaimTask(task))
        /\ claimedTask' = [claimedTask EXCEPT ![w] = {ClaimTask(task)}]
    /\ claimReq' = [claimReq EXCEPT ![w] = {}]
    /\ pc' = [pc EXCEPT ![w] = IF Len(readyTasks[w]) > 1 THEN "claim" ELSE "execute"]
    /\ readyTasks' = [readyTasks EXCEPT
                        ![w] = IF Len(@) > 1 THEN Tail(@) ELSE @]
    /\ last' = [op |-> "claim", by |-> w, id |-> taskId, status |-> 200]
    /\ UNCHANGED <<now, storage, queue, acked, redelivered>>

\* the claim request's TASK_BUFFER.put and its 200 response
ClaimWrite(w) ==
    LET taskId == Head(readyTasks[w]) IN
    /\ pc[w] = "claimWrite"
    /\ \E task \in claimReq[w] :
        /\ buffer' = ClaimPut(buffer, taskId, ClaimTask(task))
        /\ claimedTask' = [claimedTask EXCEPT ![w] = {ClaimTask(task)}]
    /\ claimReq' = [claimReq EXCEPT ![w] = {}]
    /\ pc' = [pc EXCEPT ![w] = "execute"]
    /\ last' = [op |-> "claim", by |-> w, id |-> taskId, status |-> 200]
    /\ UNCHANGED <<now, storage, queue, acked, redelivered, readyTasks>>

\* the whole claim request in one step (get, checks, put, response)
ClaimAtomic(w) ==
    LET taskId == Head(readyTasks[w])
        status == ClaimCheck(buffer, taskId)
        task == ClaimTask(KVGet(buffer, TaskKey(taskId)))
    IN  /\ pc[w] = "claim"
        /\ IF status = 200
           THEN /\ buffer' = ClaimPut(buffer, taskId, task)
                /\ claimedTask' = [claimedTask EXCEPT ![w] = {task}]
                /\ pc' = [pc EXCEPT ![w] = "execute"]
                /\ UNCHANGED readyTasks
           ELSE /\ Skip(w)
                /\ UNCHANGED <<buffer, claimedTask>>
        /\ last' = [op |-> "claim", by |-> w, id |-> taskId, status |-> status]
        /\ UNCHANGED <<now, storage, queue, acked, redelivered, claimReq>>

\* faulty variant of ClaimFail: the listed task is processed although the claim
\* returned null
ClaimFailProceed(w) ==
    /\ pc[w] = "claim"
    /\ pc' = [pc EXCEPT ![w] = "execute"]
    /\ claimedTask' = [claimedTask EXCEPT
                         ![w] = {[taskId |-> Head(readyTasks[w]), type |-> "email",
                                  payload |-> [shouldFail |-> FALSE]]}]
    /\ last' = [op |-> "claim", by |-> w, id |-> Head(readyTasks[w]), status |-> 0]
    /\ UNCHANGED <<now, storage, queue, acked, redelivered, buffer, claimReq,
                   readyTasks>>

\* claimTask(): the request failed before it reached the handler, null is returned
ClaimFail(w) ==
    /\ pc[w] = "claim"
    /\ Skip(w)
    /\ last' = [op |-> "claim", by |-> w, id |-> Head(readyTasks[w]), status |-> 0]
    /\ UNCHANGED <<now, storage, queue, acked, redelivered, buffer, claimReq,
                   claimedTask>>

\* processTask(): simulateWork(task.type, task.payload). payload.shouldFail is read
\* in a timer callback: with no payload the TypeError is uncaught and ends the
\* process.
Execute(w) ==
    /\ pc[w] = "execute"
    /\ \E task \in claimedTask[w] :
        /\ pc' = [pc EXCEPT ![w] = IF Has(task, "payload") THEN "report"
                                   ELSE "crashed"]
        /\ last' = [op |-> "execute", by |-> w, id |-> task.taskId]
    /\ UNCHANGED <<now, storage, queue, acked, redelivered, buffer, readyTasks,
                   claimReq, claimedTask>>

\* the body markTaskCompleted posts for a task
WorkerBody(task) ==
    IF ShouldFail(task) THEN FailureBody ELSE SuccessBody(task.type, now)

\* markTaskCompleted() answered by the API worker (200 or 404; both are only logged)
Report(w) ==
    /\ pc[w] = "report"
    /\ \E task \in claimedTask[w] :
        /\ storage' = ReportStore(task.taskId, WorkerBody(task))
        /\ last' = [op |-> "report", by |-> w, id |-> task.taskId,
                    body |-> WorkerBody(task), status |-> ReportStatus(task.taskId)]
    /\ pc' = [pc EXCEPT ![w] = "retire"]
    /\ UNCHANGED <<now, queue, acked, redelivered, buffer, readyTasks, claimReq,
                   claimedTask>>

\* markTaskCompleted(): the request failed or timed out; the catch logs it
ReportFail(w) ==
    /\ pc[w] = "report"
    /\ \E task \in claimedTask[w] :
        last' = [op |-> "report", by |-> w, id |-> task.taskId,
                 body |-> WorkerBody(task), status |-> 0]
    /\ pc' = [pc EXCEPT ![w] = "retire"]
    /\ UNCHANGED <<now, storage, queue, acked, redelivered, buffer, readyTasks,
                   claimReq, claimedTask>>

\* completeTaskInBuffer() answered by the queue worker
Retire(w) ==
    /\ pc[w] = "retire"
    /\ \E task \in claimedTask[w] :
        /\ buffer' = CompleteBuffer(buffer, task.taskId)
        /\ last' = [op |-> "complete", by |-> w, id |-> task.taskId,
                    status |-> CompleteStatus(buffer, task.taskId)]
    /\ claimedTask' = [claimedTask EXCEPT ![w] = {}]
    /\ Skip(w)
    /\ UNCHANGED <<now, storage, queue, acked, redelivered, claimReq>>

\* completeTaskInBuffer(): the request failed; the catch logs it
RetireFail(w) ==
    /\ pc[w] = "retire"
    /\ \E task \in claimedTask[w] :
        last' = [op |-> "complete", by |-> w, id |-> task.taskId, status |-> 0]
    /\ claimedTask' = [claimedTask EXCEPT ![w] = {}]
    /\ Skip(w)
    /\ UNCHANGED <<now, storage, queue, acked, redelivered, buffer, claimReq>>

\* ----------------------------------------------------- other callers
\* POST /tasks/:id/complete on the queue worker by any caller
Complete(taskId) ==
    /\ buffer' = CompleteBuffer(buffer, taskId)
    /\ last' = [op |-> "complete", by |-> Client, id |-> taskId,
                status |-> CompleteStatus(buffer, taskId)]
    /\ UNCHANGED <<now, storage, queue, acked, redelivered, pc, readyTasks,
                   claimReq, claimedTask>>

\* a day passes; KV drops the keys whose expiration is reached
Tick ==
    /\ now < MaxDays * ExpirationTtl
    /\ now' = now + ExpirationTtl
    /\ buffer' = KVExpire(buffer, now + ExpirationTtl)
    /\ last' = [op |-> "tick", by |-> "clock"]
    /\ UNCHANGED <<storage, queue, acked, redelivered, pc, readyTasks, claimReq,
                   claimedTask>>

\* ---------------------------------------------------- specification
Init ==
    /\ now = 0
    /\ storage = EmptyKV
    /\ queue = {}
    /\ acked = {}
    /\ redelivered = 0
    /\ buffer = EmptyKV
    /\ pc = [w \in Workers |-> "start"]
    /\ readyTasks = [w \in Workers |-> <<>>]
    /\ claimReq = [w \in Workers |-> {}]
    /\ claimedTask = [w \in Workers |-> {}]
    /\ last = [op |-> "init", by |-> "init"]

\* the tasks of the two scenarios: consumers racing for one task, and one
\* consumer working through several
RaceIds == {TaskOrder[1]}
RaceWorkers == Workers
SerialIds == TaskIds
SerialWorkers == {"w1"}

ApiNext(ids) ==
    \/ \E body \in SubmitBodies, fail \in {"none", "put", "send"} :
          Submit(ids, body, fail)
    \/ \E taskId \in ids, body \in ReportBodies : ReportCompletion(taskId, body)

ApiReads(ids) ==
    \/ \E taskId \in ids : GetStatus(taskId)
    \/ ListTasksApi

QueueNext(ids) ==
    \/ \E batch \in Batches, failAt \in 0..MaxBatch :
          failAt <= Len(batch) /\ QueueHandler(batch, failAt)
    \/ \E taskId \in ids : Complete(taskId)

ConsumerNext(w) ==
    \/ Start(w) \/ StartFail(w)
    \/ Poll(w) \/ PollFail(w) \/ Wake(w)
    \/ ClaimFail(w)
    \/ Execute(w)
    \/ Report(w) \/ ReportFail(w)
    \/ Retire(w) \/ RetireFail(w)

\* every claim request is a get followed by a separate put
Next ==
    \/ ApiNext(RaceIds)
    \/ QueueNext(RaceIds)
    \/ Tick
    \/ \E w \in RaceWorkers : ConsumerNext(w) \/ ClaimRead(w) \/ ClaimWrite(w)

Spec == Init /\ [][Next]_vars

\* every claim request is one atomic step
NextAtomic ==
    \/ ApiNext(RaceIds)
    \/ ApiReads(RaceIds)
    \/ QueueNext(RaceIds)
    \/ Tick
    \/ \E w \in RaceWorkers : ConsumerNext(w) \/ ClaimAtomic(w)

SpecAtomic == Init /\ [][NextAtomic]_vars

\* ------------------------------------------------------------ claims
BufferEntry(taskId) == KVGet(buffer, TaskKey(taskId))
Buffered(taskId) == KVHas(buffer, TaskKey(taskId))
Terminal(kv, taskId) ==
    KVHas(kv, TaskKey(taskId)) /\ KVGet(kv, TaskKey(taskId)).status \in {"completed", "failed"}

\* C1: of two claim requests for one task id that run concurrently against a
\* ready entry, exactly one succeeds: a request that has read the entry as ready
\* and finishes after another request has claimed it (the entry is processing by
\* then) answers 409.
C1_ExactlyOneClaimSucceeds ==
    [][\A w \in Workers :
        (/\ pc[w] = "claimWrite"
         /\ Buffered(Head(readyTasks[w]))
         /\ BufferEntry(Head(readyTasks[w])).status = "processing"
         /\ last'.op = "claim" /\ last'.by = w)
        => last'.status = 409]_vars

\* C2: with atomic claim requests and a transport that may deliver a message
\* again at any time, no two consumers execute the same task id at once.
C2_AtMostOneExecuting ==
    \A w1 \in Workers : \A w2 \in Workers \ {w1} :
        ~(/\ pc[w1] = "execute" /\ pc[w2] = "execute"
          /\ \E t1 \in claimedTask[w1], t2 \in claimedTask[w2] : t1.taskId = t2.taskId)

\* the claim request of consumer w reaches its handler in this step
ClaimHandled(w) ==
    /\ pc[w] = "claim"
    /\ last'.by = w
    /\ last'.op \in {"claim", "claimRead"}
    /\ last'.op = "claim" => last'.status # 0

\* C4: a claim request for an id with no buffer entry answers 404, one for an
\* entry that is not ready answers 409, and neither changes the buffer store.
C4_FailedClaimLeavesBuffer ==
    [][\A w \in Workers :
        ClaimHandled(w) =>
            LET taskId == Head(readyTasks[w]) IN
            /\ ~Buffered(taskId) =>
                  /\ last'.op = "claim" /\ last'.status = 404
                  /\ buffer' = buffer
            /\ (Buffered(taskId) /\ BufferEntry(taskId).status # "ready") =>
                  /\ last'.op = "claim" /\ last'.status = 409
                  /\ buffer' = buffer]_vars

\* a claim of an entry that another consumer holds was answered 409
C4_Witness ==
    /\ last.op = "claim" /\ last.status = 409
    /\ Buffered(last.id) /\ BufferEntry(last.id).status = "processing"

\* C5: complete on the queue worker answers 200 whatever the entry is: it removes
\* a ready or processing entry and nothing else, and on an id with no entry (never
\* buffered, or completed before) it succeeds and leaves the store as it is.
C5_CompleteIdempotent ==
    [][(last'.op = "complete" /\ last'.status # 0) =>
        LET key == TaskKey(last'.id) IN
        /\ last'.status = 200
        /\ ~KVHas(buffer', key)
        /\ DOMAIN buffer' = DOMAIN buffer \ {key}
        /\ \A k \in DOMAIN buffer' : buffer'[k] = buffer[k]
        /\ ~KVHas(buffer, key) => buffer' = buffer]_vars

\* complete was called for an id that was never submitted, so never buffered
C5_Witness ==
    /\ last.op = "complete" /\ last.by = Client /\ last.status = 200
    /\ storage = EmptyKV

\* C6: a record that is completed or failed stays completed or failed.
C6_TerminalStays ==
    [][\A taskId \in TaskIds :
        Terminal(storage, taskId) => Terminal(storage', taskId)]_vars

\* a completed record was reported again, as failed
C6_Witness ==
    \E taskId \in TaskIds :
        /\ Terminal(storage, taskId)
        /\ KVGet(storage, TaskKey(taskId)).status = "failed"
        /\ Has(KVGet(storage, TaskKey(taskId)), "result")

\* the record is as a report with this body leaves it, completedAt apart
OutcomeApplied(task, body) ==
    /\ Has(task, "completedAt")
    /\ task.status = (IF body.success THEN "completed" ELSE "failed")
    /\ Has(body, "result") => (Has(task, "result") /\ task.result = body.result)
    /\ Has(body, "error") => (Has(task, "error") /\ task.error = body.error)

\* C7: reportCompletion is idempotent: a report with the outcome the record
\* already holds leaves the record equal in every field.
C7_ReportIdempotent ==
    [][(/\ last'.op = "report" /\ last'.status = 200
        /\ OutcomeApplied(KVGet(storage, TaskKey(last'.id)), last'.body))
       => storage' = storage]_vars

\* no two keys of the buffer store hold an entry of the same task id
OneEntryPerTask ==
    \A k1, k2 \in DOMAIN buffer :
        buffer[k1].value.taskId = buffer[k2].value.taskId => k1 = k2

\* C9: however often a task's message is delivered, the buffer holds one entry
\* for its id, and after a delivery that entry is the message with status ready
\* and a receivedAt, whatever the entry was before.
C9_DeliverIdempotent ==
    [][/\ OneEntryPerTask'
       /\ last'.op = "queue" =>
            \A i \in 1..last'.written :
                LET m == last'.batch[i]
                    keys == {k \in DOMAIN buffer' : buffer'[k].value.taskId = m.taskId}
                IN  /\ Cardinality(keys) = 1
                    /\ \A k \in keys :
                        LET e == buffer'[k].value IN
                        /\ DOMAIN e = DOMAIN m \cup {"status", "receivedAt"}
                        /\ e.status = "ready"
                        /\ \A f \in DOMAIN m : e[f] = m[f]]_vars

\* a message was delivered again, a day later, while a consumer was executing its
\* task: the entry is ready again
C9_Witness ==
    /\ last.op = "queue" /\ last.outcome = "ok" /\ redelivered > 0
    /\ \E w \in Workers : \E task \in claimedTask[w] :
        /\ pc[w] = "execute"
        /\ Buffered(task.taskId)
        /\ BufferEntry(task.taskId).status = "ready"
        /\ BufferEntry(task.taskId).receivedAt > task.receivedAt

\* ---------------------------------------------------------- fairness
\* a consumer process keeps running: whichever step its loop is at is taken
ConsumerStep(w) == ConsumerNext(w) \/ ClaimRead(w) \/ ClaimWrite(w)

\* the transport keeps delivering the messages that are not acknowledged, and the
\* queue handler's put does not fail forever
Deliver == \E batch \in Batches : BatchSet(batch) \subseteq queue /\ QueueHandler(batch, 0)

\* the pipeline on its own: submit, transport, queue worker, consumers, the clock
NextPipeline ==
    \/ \E body \in SubmitBodies, fail \in {"none", "put", "send"} :
          Submit(RaceIds, body, fail)
    \/ \E batch \in Batches, failAt \in 0..MaxBatch :
          failAt <= Len(batch) /\ QueueHandler(batch, failAt)
    \/ Tick
    \/ \E w \in RaceWorkers : ConsumerStep(w)

\* calls to the two workers may fail (ReportFail, RetireFail, ...), only not forever
FairSpec ==
    /\ Init /\ [][NextPipeline]_vars
    /\ WF_vars(Deliver)
    /\ \A w \in Workers :
        /\ WF_vars(ConsumerStep(w))
        /\ SF_vars(Poll(w)) /\ SF_vars(ClaimRead(w)) /\ SF_vars(Report(w))
        /\ SF_vars(Retire(w))

RetiredByConsumer(taskId) ==
    /\ last.op = "complete" /\ last.by \in Workers
    /\ last.id = taskId /\ last.status = 200

\* C3: once a consumer's complete call has removed a task's buffer entry, the
\* authoritative status of the task eventually is completed or failed, also when
\* calls to the API worker fail or time out.
C3_RemovedLeadsToTerminal ==
    \A taskId \in TaskIds : RetiredByConsumer(taskId) ~> Terminal(storage, taskId)

\* one consumer working through the tasks of SerialIds
NextSerial ==
    \/ \E body \in SubmitBodies, fail \in {"none", "put", "send"} :
          Submit(SerialIds, body, fail)
    \/ \E batch \in Batches, failAt \in 0..MaxBatch :
          failAt <= Len(batch) /\ QueueHandler(batch, failAt)
    \/ \E w \in SerialWorkers : ConsumerStep(w)

SpecSerial == Init /\ [][NextSerial]_vars

\* C10: when the put of a message of the batch fails the queue handler ends with
\* an error, and a handler that ends normally has written the entry of every
\* message of its batch.
C10_FailedPutRethrows ==
    last.op = "queue" =>
        /\ last.failAt # 0 => last.outcome = "error"
        /\ last.outcome = "ok" =>
            \A i \in DOMAIN last.batch :
                /\ Buffered(last.batch[i].taskId)
                /\ BufferEntry(last.batch[i].taskId) = BufferedTask(last.batch[i])

\* the put of the second message of a batch failed after the first was written
C10_Witness ==
    /\ last.op = "queue" /\ last.outcome = "error"
    /\ Len(last.batch) = 2 /\ last.failAt = 2 /\ last.written = 1
    /\ Buffered(last.batch[1].taskId) /\ ~Buffered(last.batch[2].taskId)

\* -------------------------------------------- no failed calls, fairness
\* the pipeline when no call fails and no process is stopped from outside
NextLive ==
    \/ \E body \in SubmitBodies : Submit(RaceIds, body, "none")
    \/ \E batch \in Batches : QueueHandler(batch, 0)
    \/ \E w \in RaceWorkers :
        \/ Start(w) \/ Poll(w) \/ Wake(w)
        \/ ClaimRead(w) \/ ClaimWrite(w)
        \/ Execute(w) \/ Report(w) \/ Retire(w)

LiveStep(w) ==
    \/ Start(w) \/ Poll(w) \/ Wake(w) \/ ClaimRead(w) \/ ClaimWrite(w)
    \/ Execute(w) \/ Report(w) \/ Retire(w)

LiveSpec ==
    /\ Init /\ [][NextLive]_vars
    /\ WF_vars(Deliver)
    /\ \A w \in Workers : WF_vars(LiveStep(w))

Accepted(taskId) == last.op = "submit" /\ last.status = 201 /\ last.id = taskId

Claimed(taskId) == \E w \in Workers : \E task \in claimedTask[w] : task.taskId = taskId

\* what the execution of the stored task ends with
ExpectedStatus(task) ==
    IF Has(task, "payload") /\ task.payload.shouldFail THEN "failed" ELSE "completed"

Finished(taskId) ==
    LET task == KVGet(storage, TaskKey(taskId)) IN
    /\ KVHas(storage, TaskKey(taskId))
    /\ task.status = ExpectedStatus(task)
    /\ Has(task, "completedAt")
    /\ task.status = "failed" => Has(task, "error")
    /\ \A i \in DOMAIN ListReady(buffer) : ListReady(buffer)[i].taskId # taskId
    /\ \A i \in DOMAIN ListAll(buffer) : ListAll(buffer)[i].taskId # taskId

\* C8: with no failed call and every component fair, a task that submit accepted
\* gets a ready buffer entry, is claimed, and ends completed (execution succeeded)
\* or failed with its reason (execution failed), its entry gone from listReady and
\* listAll.
C8_AcceptedTaskFinishes ==
    \A taskId \in TaskIds :
        /\ Accepted(taskId) ~>
              (Buffered(taskId) /\ BufferEntry(taskId).status = "ready")
        /\ Accepted(taskId) ~> Claimed(taskId)
        /\ Accepted(taskId) ~> Finished(taskId)

\* -------------------------------------------------- expiry of entries
\* the entries GET /tasks/all returns
ListedAll == {ListAll(buffer)[i] : i \in DOMAIN ListAll(buffer)}

\* C11: every buffer entry, ready or processing, has a finite expiry: an entry
\* that was received a full expirationTtl ago and never completed is absent for
\* claim, listReady and listAll.
C11_StaleEntryAbsent ==
    \A taskId \in TaskIds :
        /\ Buffered(taskId) =>
              /\ Has(buffer[TaskKey(taskId)], "expiration")
              /\ BufferEntry(taskId).receivedAt + ExpirationTtl > now
        /\ \A e \in ListedAll : e.receivedAt + ExpirationTtl > now

\* ------------------------------------------- authoritative records
Stored(taskId) == KVHas(storage, TaskKey(taskId))
Record(taskId) == KVGet(storage, TaskKey(taskId))

\* C12: no authoritative record holds both a result and a failure reason, and a
\* pending record holds neither, whatever reports were made for the task.
C12_ResultXorError ==
    \A taskId \in TaskIds : Stored(taskId) =>
        /\ ~(Has(Record(taskId), "result") /\ Has(Record(taskId), "error"))
        /\ Record(taskId).status = "pending" =>
              (~Has(Record(taskId), "result") /\ ~Has(Record(taskId), "error"))

\* ------------------------------------------------------------ submit
\* C13: submit answers 201 only when both the put of the pending record and the
\* send to the queue succeeded; when the send fails after the put, the caller gets
\* 500 and the pending record stays in the store, with no message queued.
C13_SubmitBothOrError ==
    [][(last'.op = "submit" /\ last'.status # 400) =>
        LET taskId == last'.id IN
        /\ last'.status \in {201, 500}
        /\ last'.status = 201 <=> last'.fail = "none"
        /\ last'.status = 201 =>
              /\ ~Stored(taskId)
              /\ KVHas(storage', TaskKey(taskId))
              /\ KVGet(storage', TaskKey(taskId)).status = "pending"
              /\ \E m \in queue' \ queue : m.taskId = taskId
        /\ last'.fail = "send" =>
              /\ ~Stored(taskId)
              /\ KVHas(storage', TaskKey(taskId))
              /\ KVGet(storage', TaskKey(taskId)).status = "pending"
              /\ queue' = queue
        /\ last'.fail = "put" => (storage' = storage /\ queue' = queue)]_vars

\* the send failed: 500, and the pending record is there with no message for it
C13_Witness ==
    /\ last.op = "submit" /\ last.fail = "send" /\ last.status = 500
    /\ Stored(last.id) /\ Record(last.id).status = "pending"
    /\ \A m \in queue \cup acked : m.taskId # last.id

\* C14: a submit whose body has no type is answered 400 and has no effect: no
\* record is written and no message is sent.
C14_NoTypeRejected ==
    [][(last'.op = "submit" /\ ~Has(last'.body, "type")) =>
        /\ last'.status = 400
        /\ storage' = storage
        /\ queue' = queue]_vars

\* a body with a payload and no type was rejected while the store was empty
C14_Witness ==
    /\ last.op = "submit" /\ last.status = 400
    /\ ~Has(last.body, "type") /\ Has(last.body, "payload")
    /\ storage = EmptyKV /\ queue = {}

\* ------------------------------------------- before the first report
\* the system as long as no reportCompletion request reaches the API worker: the
\* consumers' reports fail on the way (ReportFail) and nobody else reports
NextUnreported ==
    \/ \E body \in SubmitBodies, fail \in {"none", "put", "send"} :
          Submit(RaceIds, body, fail)
    \/ \E taskId \in RaceIds : GetStatus(taskId)
    \/ QueueNext(RaceIds)
    \/ Tick
    \/ \E w \in RaceWorkers :
        \/ Start(w) \/ StartFail(w)
        \/ Poll(w) \/ PollFail(w) \/ Wake(w)
        \/ ClaimRead(w) \/ ClaimWrite(w) \/ ClaimFail(w)
        \/ Execute(w)
        \/ ReportFail(w)
        \/ Retire(w) \/ RetireFail(w)

SpecUnreported == Init /\ [][NextUnreported]_vars

\* submit answered 201 for the task: its message was sent
Submitted(taskId) == \E m \in queue \cup acked : m.taskId = taskId

C16_ReportUnknownIs404 ==
    [][(last'.op = "report" /\ last'.status # 0 /\ ~Stored(last'.id)) =>
        /\ last'.status = 404
        /\ storage' = storage
        /\ ~KVHas(storage', TaskKey(last'.id))]_vars

\* a report for a task id that was never submitted was answered 404
C16_Witness ==
    /\ last.op = "report" /\ last.status = 404
    /\ ~Stored(last.id) /\ Has(last.body, "result")

\* a consumer holds the task: its claim succeeded and its report is still to come
ClaimedUnreported(taskId) ==
    \E w \in Workers : \E task \in claimedTask[w] :
        task.taskId = taskId /\ pc[w] \in {"execute", "report"}

\* C17: while a consumer has claimed a task and has not reported its execution,
\* getStatus on the API worker answers status processing for the task.
C17_StatusProcessingWhileClaimed ==
    (last.op = "getStatus" /\ last.status = 200 /\ ClaimedUnreported(last.id)) =>
        last.body.status = "processing"

\* ---------------------------------------------------------- listReady
\* the entries that are stored, not expired, and ready
ReadyEntries ==
    {BufferEntry(taskId) : taskId \in
        {x \in TaskIds :
            /\ Buffered(x)
            /\ Has(buffer[TaskKey(x)], "expiration") =>
                  buffer[TaskKey(x)].expiration > now
            /\ BufferEntry(x).status = "ready"}}

\* C18: listReady returns exactly the entries that are not expired and ready when
\* they are read, each once: never a processing entry, never an expired one.
C18_ListReadyExact ==
    (last.op = "listReady" /\ last.status = 200) =>
        LET returned == {last.tasks[i] : i \in DOMAIN last.tasks} IN
        /\ returned = ReadyEntries
        /\ Len(last.tasks) = Cardinality(returned)
        /\ \A e \in returned :
              /\ e.status = "ready"
              /\ e.receivedAt + ExpirationTtl > now

\* listReady returned nothing while the buffer held a processing entry
C18_Witness ==
    /\ last.op = "listReady" /\ last.status = 200 /\ last.tasks = <<>>
    /\ \E taskId \in TaskIds :
          Buffered(taskId) /\ BufferEntry(taskId).status = "processing"

\* ------------------------------------------------------ claim's frame
\* the claim request of consumer w is answered 200 in this step
ClaimSucceeds(w) ==
    /\ pc[w] \in {"claim", "claimWrite"}
    /\ last'.op = "claim" /\ last'.by = w /\ last'.status = 200

\* C19: a successful claim on a ready entry changes only that entry: its status
\* becomes processing and claimedAt is set, its other fields (taskId, type,
\* payload, createdAt, receivedAt) are unchanged, and so is every other entry.
C19_ClaimFrame ==
    [][\A w \in Workers :
        (/\ ClaimSucceeds(w)
         /\ Buffered(Head(readyTasks[w]))
         /\ BufferEntry(Head(readyTasks[w])).status = "ready") =>
            LET key == TaskKey(Head(readyTasks[w]))
                old == KVGet(buffer, key)
                new == KVGet(buffer', key)
            IN  /\ KVHas(buffer', key)
                /\ new.status = "processing"
                /\ Has(new, "claimedAt") /\ new.claimedAt = now
                /\ DOMAIN new = DOMAIN old \cup {"claimedAt"}
                /\ \A f \in DOMAIN old \ {"status", "claimedAt"} : new[f] = old[f]
                /\ DOMAIN buffer' = DOMAIN buffer
                /\ \A k \in DOMAIN buffer \ {key} : buffer'[k] = buffer[k]]_vars

\* -------------------------------------------------------- completedAt
\* C20: an authoritative record has completedAt exactly when its status is
\* completed or failed.
C20_CompletedAtIffTerminal ==
    \A taskId \in TaskIds : Stored(taskId) =>
        (Has(Record(taskId), "completedAt") <=> Terminal(storage, taskId))

\* a consumer reported a failed execution a day after the task was created: the
\* record is failed and stamped with that time
C20_Witness ==
    /\ last.op = "report" /\ last.by \in Workers /\ last.status = 200
    /\ Record(last.id).status = "failed"
    /\ Has(Record(last.id), "completedAt")
    /\ Record(last.id).completedAt > Record(last.id).createdAt

\* ------------------------------------------ report, then complete
\* consumer w's reportCompletion request has just returned or failed
ReportIssued(w) == last.op = "report" /\ last.by = w

\* consumer w's complete request has just returned or failed
CompleteIssued(w) == last.op = "complete" /\ last.by = w

\* within one consumer the requests follow the order claim, report, complete
ReportBeforeComplete ==
    [][\A w \in Workers :
        /\ (last'.op = "report" /\ last'.by = w) =>
              (pc[w] = "report" /\ pc'[w] = "retire")
        /\ (last'.op = "complete" /\ last'.by = w) =>
              (pc[w] = "retire" /\ pc'[w] # "retire")
        /\ (pc'[w] = "retire" /\ pc[w] # "retire") =>
              (pc[w] = "report" /\ last'.op = "report" /\ last'.by = w)
        /\ (pc'[w] = "report" /\ pc[w] # "report") => pc[w] = "execute"]_vars

\* C21: for every successful claim the consumer issues one reportCompletion call
\* and then one complete call, in that order, whether the execution succeeded or
\* failed and whether the report succeeded or failed; complete is never sent
\* before the report has returned or failed.
C21_ReportThenComplete ==
    /\ ReportBeforeComplete
    /\ \A w \in Workers :
        /\ pc[w] = "execute" ~> (ReportIssued(w) /\ pc[w] = "retire")
        /\ pc[w] = "retire" ~> CompleteIssued(w)

\* --------------------------------------------------- the polling loop
\* positions of the while (this.isRunning) loop of start()
InLoop == {"poll", "claim", "claimWrite", "execute", "report", "retire", "sleep"}

\* C22: for any task, also one submitted with no payload, a failure while
\* polling, claiming, executing or reporting ends neither the consumer process
\* nor its polling loop: a consumer that is in the loop stays in the loop.
C22_FailureKeepsLoop ==
    [][\A w \in Workers : pc[w] \in InLoop => pc'[w] \in InLoop]_vars

\* ------------------------------------------------ only after a claim
\* C23: a consumer executes a task, reports it and retires its entry only after
\* its own claim request for that task id was answered with success; when the
\* claim fails (404, 409, or no response) the consumer skips the candidate and
\* sends no report and no complete for it.
C23_OnlyAfterOwnClaim ==
    [][\A w \in Workers :
        /\ (pc'[w] = "execute" /\ pc[w] # "execute") =>
              /\ last'.op = "claim" /\ last'.by = w /\ last'.status = 200
              /\ last'.id = Head(readyTasks[w])
              /\ \E task \in claimedTask'[w] :
                    claimedTask'[w] = {task} /\ task.taskId = last'.id
        /\ (last'.by = w /\ last'.op \in {"execute", "report", "complete"}) =>
              /\ \E task \in claimedTask[w] : task.taskId = last'.id
              /\ pc[w] \in {"execute", "report", "retire"}
        /\ pc[w] \in {"execute", "report", "retire"} =>
              (pc'[w] # pc[w] \/ claimedTask'[w] = claimedTask[w])
        /\ (last'.op = "claim" /\ last'.by = w /\ last'.status # 200) =>
              /\ pc[w] = "claim"
              /\ pc'[w] \in {"claim", "sleep"}
              /\ readyTasks'[w] = Tail(readyTasks[w])
              /\ claimedTask'[w] = {} /\ claimedTask[w] = {}
              /\ storage' = storage /\ buffer' = buffer]_vars

\* a claim was answered 409 and the consumer went on with nothing to process
C23_Witness ==
    /\ last.op = "claim" /\ last.status = 409
    /\ pc[last.by] = "sleep" /\ claimedTask[last.by] = {}
    /\ \E w \in Workers \ {last.by} : \E task \in claimedTask[w] :
          task.taskId = last.id /\ pc[w] = "execute"

\* -------------------------------------------- life of a buffer entry
\* C24: under any interleaving of deliveries, claims and completes on one task
\* id the entry goes ready, processing, removed: an entry that is processing
\* never is ready again.
C24_ProcessingNeverReady ==
    [][\A taskId \in TaskIds :
        (Buffered(taskId) /\ BufferEntry(taskId).status = "processing") =>
            ~(/\ KVHas(buffer', TaskKey(taskId))
              /\ KVGet(buffer', TaskKey(taskId)).status = "ready")]_vars

\* C25: once a complete call has removed the entry of a task id, the buffer holds
\* no entry for the id until the transport delivers the task again: an absent
\* entry appears only by a run of the queue handler, never by a claim request
\* that read the entry before the delete.
C25_RemovedStaysRemoved ==
    [][\A taskId \in TaskIds :
        (~Buffered(taskId) /\ KVHas(buffer', TaskKey(taskId))) =>
            last'.op = "queue"]_vars

\* ------------------------------------------------ one task at a time
\* C26: a consumer has at most one claimed task in flight: it sends no listReady
\* and no claim request while a task it claimed has not gone through execution,
\* the reportCompletion call and the complete call.
C26_OneTaskInFlight ==
    [][\A w \in Workers :
        /\ Cardinality(claimedTask'[w]) <= 1
        /\ claimedTask'[w] # {} =>
              pc'[w] \in {"execute", "report", "retire", "crashed"}
        /\ (last'.by = w /\ last'.op \in {"listReady", "claimRead", "claim"}) =>
              /\ claimedTask[w] = {}
              /\ pc[w] \in {"poll", "claim", "claimWrite"}]_vars

\* in one cycle the consumer claimed the second task after the first one was
\* reported and retired
C26_Witness ==
    /\ last.op = "claim" /\ last.status = 200 /\ last.id = TaskOrder[2]
    /\ Terminal(storage, TaskOrder[1]) /\ ~Buffered(TaskOrder[1])
    /\ \E task \in claimedTask[last.by] :
          claimedTask[last.by] = {task} /\ task.taskId = TaskOrder[2]

\* --------------------------------------------------------- stop signal
\* process.on('SIGINT' / 'SIGTERM'): the handler calls process.exit(0); the
\* process ends wherever start() is, with the task it holds
Signal(w) ==
    /\ pc[w] \notin {"exited", "crashed", "stopped"}
    /\ pc' = [pc EXCEPT ![w] = "stopped"]
    /\ last' = [op |-> "signal", by |-> w]
    /\ UNCHANGED <<now, storage, queue, acked, redelivered, buffer, readyTasks,
                   claimReq, claimedTask>>

\* consumers that may be sent a stop signal at any time
NextSignal ==
    \/ \E body \in SubmitBodies, fail \in {"none", "put", "send"} :
          Submit(RaceIds, body, fail)
    \/ \E batch \in Batches, failAt \in 0..MaxBatch :
          failAt <= Len(batch) /\ QueueHandler(batch, failAt)
    \/ \E w \in RaceWorkers : ConsumerNext(w) \/ ClaimAtomic(w) \/ Signal(w)

SpecSignal == Init /\ [][NextSignal]_vars

\* C27: when a stop signal reaches a consumer while it executes a claimed task,
\* the task is run to completion, reported and retired before the consumer halts:
\* a consumer halts only when it holds no claimed task.
C27_StopFinishesTask ==
    [][\A w \in Workers :
        (pc'[w] = "stopped" /\ pc[w] # "stopped") =>
            (pc[w] \notin {"execute", "report", "retire"} /\ claimedTask[w] = {})]_vars

\* ------------------------------------------------------------ startup
\* C28: when the health check of the queue worker or of the API worker fails at
\* startup the consumer never enters the polling loop: it sends no listReady,
\* claim, reportCompletion or complete request at any later time.
C28_FailedStartNeverPolls ==
    [][\A w \in Workers :
        /\ (last'.op = "health" /\ last'.by = w /\ last'.status = 0) =>
              (pc[w] = "start" /\ pc'[w] = "exited")
        /\ (pc'[w] = "exited" /\ pc[w] # "exited") =>
              (last'.op = "health" /\ last'.by = w /\ last'.status = 0)
        /\ pc[w] = "exited" =>
              /\ pc'[w] = "exited"
              /\ last'.by # w
              /\ readyTasks'[w] = <<>> /\ claimReq'[w] = {} /\ claimedTask'[w] = {}]_vars

\* a consumer whose health check failed stays out while a ready entry waits and
\* the other consumer polls
C28_Witness ==
    \E w \in Workers :
        /\ pc[w] = "exited"
        /\ last.op = "listReady" /\ last.by # w /\ last.status = 200
        /\ Len(last.tasks) > 0

\* -------------------------------------------- entries and their records
\* C29: in the pipeline, where messages enter the queue only through submit,
\* every message and every buffer entry has an authoritative record with its task
\* id: submit stores the pending record before it sends the message, and nothing
\* deletes a record.
C29_EntryHasRecord ==
    /\ \A m \in queue \cup acked :
          Stored(m.taskId) /\ Record(m.taskId).id = m.taskId
    /\ \A k \in DOMAIN buffer :
          /\ Stored(buffer[k].value.taskId)
          /\ Record(buffer[k].value.taskId).id = buffer[k].value.taskId
          /\ Record(buffer[k].value.taskId).createdAt = buffer[k].value.createdAt

\* a redelivery a day later buffered a task again whose record is already terminal
C29_Witness ==
    \E taskId \in TaskIds :
        /\ Buffered(taskId) /\ BufferEntry(taskId).status = "ready"
        /\ BufferEntry(taskId).receivedAt > 0
        /\ Terminal(storage, taskId)
        /\ redelivered > 0
=============================================================================
